---- MODULE Spec2Model ----
(***************************************************************************)
(* Academic work tracker (src/src/App.jsx): the entry ledger, the task     *)
(* taxonomy, the settings, the statistics and the missing-day list derived *)
(* from them, import, the detailed export and the remote sync.             *)
(*                                                                         *)
(* Conventions of the model                                                *)
(*  - A JavaScript number is an exact fraction [n |-> numerator,           *)
(*    d |-> denominator] in lowest terms with d > 0; d = 0 stands for a    *)
(*    non-finite value (NaN is 0/0, +-Infinity is +-1/0).  Binary          *)
(*    floating-point rounding is not modelled.                             *)
(*  - A date key 'YYYY-MM-DD' is the number of days since the Monday       *)
(*    2025-03-03 (key 0): 7 is '2025-03-10', 8 is '2025-03-11', 14 is      *)
(*    '2025-03-17'.  String order of the keys is numeric order.            *)
(*  - A Date object is an instant: whole hours since 2025-03-03T00:00Z.    *)
(*    tz is the local zone's offset from UTC in hours (no daylight         *)
(*    saving shift).                                                       *)
(*  - The ledger keeps the insertion order of its date keys (Object.keys); *)
(*    the order of category and task keys inside a date is not kept.       *)
(***************************************************************************)
EXTENDS Integers, Sequences, FiniteSets, TLC

VARIABLES
    tz,             \* environment: local time zone offset, hours east of UTC
    pc,             \* position in the mount sequence, then "ready"
    pending,        \* state updates queued by the load effect
    storage,        \* localStorage['academicTrackerV2'], parsed
    entries,        \* the ledger: [keys |-> date keys in insertion order, at |-> date -> category -> task -> hours]
    categories,     \* the taxonomy: category -> sequence of task names
    settings,       \* hoursPerWeek, carryoverHours, startOfYear, allocation, missingDataWarning
    editingTask,    \* the category whose add-task input is open, or "null"
    newTaskName,    \* text of the add-task input
    googleSheetsUrl,
    alertMsg,       \* text of the last alert() shown, "" when none yet
    now,            \* environment: the clock, the instant new Date() returns
    download,       \* the last file handed to the browser (the rows of a CSV, or a backup), or NoDownload
    roundTrip,      \* history: the state the last backup was exported in, the state it was imported over
    syncStatus,     \* "null", "syncing", "success" or "error"
    attempts,       \* the sync attempts started: "pending", "success" or "error" each
    timers          \* the number of setTimeout callbacks waiting to clear syncStatus

\* the variables of the clock and the export, and of the remote sync
reportVars == <<now, download, roundTrip>>
syncVars == <<syncStatus, attempts, timers>>

vars == <<tz, pc, pending, storage, entries, categories, settings,
          editingTask, newTaskName, googleSheetsUrl, alertMsg, reportVars, syncVars>>

(***************************************************************************)
(* Bounds of the model                                                     *)
(***************************************************************************)
MaxCells == 2       \* most (date, category, task) cells a ledger holds
MaxAdded == 1       \* most tasks added to one category beyond its default list

MaxTicks == 3       \* most steps the clock takes
MaxAttempts == 2    \* most sync attempts started

DateKeys == {7, 8, 14}
\* a Wednesday, a Friday and a Sunday before the week the clock starts in
DetectorDates == {9, 11, 13}
\* hours between two readings of the clock
ClockStep == 11
TimeZones == {-5, 0, 10}

(***************************************************************************)
(* JavaScript numbers                                                      *)
(***************************************************************************)
Abs(i) == IF i < 0 THEN -i ELSE i

RECURSIVE GCD(_, _)
GCD(a, b) == IF b = 0 THEN a ELSE GCD(b, a % b)

Rat(n, d) ==
    IF d = 0 THEN [n |-> (IF n > 0 THEN 1 ELSE IF n < 0 THEN -1 ELSE 0), d |-> 0]
    ELSE LET g == GCD(Abs(n), Abs(d))
             s == IF d < 0 THEN -1 ELSE 1
         IN  [n |-> (s * n) \div g, d |-> (s * d) \div g]

Num(i) == [n |-> i, d |-> 1]
NaN == [n |-> 0, d |-> 0]
Zero == Num(0)
IsFinite(x) == x.d # 0

\* x + y, x - y, x * y, x / y; a non-finite operand gives NaN
NumAdd(x, y) == IF x.d = 0 \/ y.d = 0 THEN NaN ELSE Rat(x.n * y.d + y.n * x.d, x.d * y.d)
NumSub(x, y) == IF x.d = 0 \/ y.d = 0 THEN NaN ELSE Rat(x.n * y.d - y.n * x.d, x.d * y.d)
NumMul(x, y) == IF x.d = 0 \/ y.d = 0 THEN NaN ELSE Rat(x.n * y.n, x.d * y.d)
NumDiv(x, y) == IF x.d = 0 \/ y.d = 0 THEN NaN ELSE Rat(x.n * y.d, x.d * y.n)
\* x > y; false when either is NaN
NumGt(x, y) == x.d # 0 /\ y.d # 0 /\ x.n * y.d > y.n * x.d

\* x <= y; false when either is NaN
NumLe(x, y) == x.d # 0 /\ y.d # 0 /\ x.n * y.d <= y.n * x.d
\* Math.abs(x)
NumAbs(x) == [n |-> Abs(x.n), d |-> x.d]

\* x || 0 on a number: NaN and 0 are falsy
OrZero(x) == IF x = NaN \/ x = Zero THEN Zero ELSE x

\* parseFloat on the input texts of the model: the longest numeric prefix, NaN when there is none
RawInputs == {"", "-1", "1.5"}
parseFloat(raw) ==
    CASE raw = "-1"  -> Num(-1)
      [] raw = "0"   -> Num(0)
      [] raw = "2"   -> Num(2)
      [] raw = "2h"  -> Num(2)
      [] raw = "1.5" -> Rat(3, 2)
      [] raw = "10"  -> Num(10)
      [] raw = "30"  -> Num(30)
      [] raw = "-3"  -> Num(-3)
      [] raw = "5"   -> Num(5)
      [] raw = "6"   -> Num(6)
      [] raw = "95"  -> Num(95)
      [] raw = "97"  -> Num(97)
      [] raw = "98"  -> Num(98)
      [] OTHER       -> NaN

RECURSIVE SumSeq(_)
SumSeq(s) == IF s = <<>> THEN Zero ELSE NumAdd(s[1], SumSeq(Tail(s)))

\* Object.values(obj).reduce((s, v) => s + (v || 0), 0) over an object of numbers
RECURSIVE SumValues(_)
SumValues(obj) ==
    IF DOMAIN obj = {} THEN Zero
    ELSE LET k == CHOOSE x \in DOMAIN obj : TRUE
         IN  NumAdd(OrZero(obj[k]), SumValues([x \in DOMAIN obj \ {k} |-> obj[x]]))

(***************************************************************************)
(* JavaScript objects and arrays                                           *)
(***************************************************************************)
EmptyObj == [x \in {} |-> 0]

\* {...obj, [k]: v}
Put(obj, k, v) == (k :> v) @@ obj
\* obj?.[k], with the empty object standing for undefined in a spread
GetOrEmpty(obj, k) == IF k \in DOMAIN obj THEN obj[k] ELSE EmptyObj
\* {...a, ...b}
Spread(a, b) == b @@ a

Range(s) == {s[i] : i \in DOMAIN s}
\* array.includes(x)
Includes(s, x) == \E i \in DOMAIN s : s[i] = x
\* array.filter(x => x # y)
RECURSIVE FilterOut(_, _)
FilterOut(s, y) ==
    IF s = <<>> THEN <<>>
    ELSE IF s[1] = y THEN FilterOut(Tail(s), y)
    ELSE <<s[1]>> \o FilterOut(Tail(s), y)

\* array.sort() on date keys
SortKeys(s) == SortSeq(s, LAMBDA a, b : a < b)

(***************************************************************************)
(* Dates                                                                   *)
(***************************************************************************)
\* new Date('YYYY-MM-DD'): a date-only string is parsed as midnight UTC
NewDateFromKey(key) == key * 24
\* the local calendar day an instant falls on
LocalDay(t, zone) == (t + zone) \div 24
\* Date.prototype.getDay(): the local weekday, 0 = Sunday ... 6 = Saturday
GetDay(t, zone) == (LocalDay(t, zone) + 1) % 7
\* date.setDate(date.getDate() + k): k local calendar days later, same local time
AddDays(t, k) == t + 24 * k
\* date.toISOString().split('T')[0]: the UTC calendar day
ToISODate(t) == t \div 24

getWeekDates(baseDate, zone) ==
    LET d == NewDateFromKey(baseDate)
        day == GetDay(d, zone)
        monday == AddDays(d, 0 - (IF day = 0 THEN 6 ELSE day - 1))
    IN  [i \in 1..7 |-> ToISODate(AddDays(monday, i - 1))]

(***************************************************************************)
(* Ledger reads                                                            *)
(***************************************************************************)
CategoryNames == <<"Research", "Teaching", "Service", "Other">>

getDayTotal(ledger, date) ==
    IF date \notin DOMAIN ledger.at THEN Zero
    ELSE SumValues([c \in DOMAIN ledger.at[date] |-> SumValues(ledger.at[date][c])])

getCategoryTotal(ledger, date, category) ==
    IF date \notin DOMAIN ledger.at \/ category \notin DOMAIN ledger.at[date] THEN Zero
    ELSE SumValues(ledger.at[date][category])

\* entries[date]?.[category]?.[task] || '' : the text shown in the hours input;
\* [text |-> ""] is the empty string, [num |-> v] a number
getEntryValue(ledger, date, category, task) ==
    LET v == IF /\ date \in DOMAIN ledger.at
                /\ category \in DOMAIN ledger.at[date]
                /\ task \in DOMAIN ledger.at[date][category]
             THEN ledger.at[date][category][task]
             ELSE Zero
    IN  IF v = Zero \/ v = NaN THEN [text |-> ""] ELSE [num |-> v]

(***************************************************************************)
(* Statistics (the stats memo)                                             *)
(***************************************************************************)
\* mutant of allDatesOf: the filter keeps the dates whose total is 0
allDatesOf_zeroKept(ledger) ==
    SortKeys(SelectSeq(ledger.keys, LAMBDA d : ~NumGt(Zero, getDayTotal(ledger, d))))

\* mutant of allDatesOf: the filter on the day total is left out
allDatesOf_noFilter(ledger) == SortKeys(ledger.keys)

\* Object.keys(entries).filter(d => getDayTotal(d) > 0).sort()
allDatesOf(ledger) ==
    SortKeys(SelectSeq(ledger.keys, LAMBDA d : NumGt(getDayTotal(ledger, d), Zero)))

\* categoryTotals[cat] after the forEach over allDates
categoryTotalOf(ledger, allDates, cat) ==
    SumSeq([i \in DOMAIN allDates |-> getCategoryTotal(ledger, allDates[i], cat)])

\* mutant of actualPercentage: the division is not guarded
actualPercentage_unguarded(catTotal, workingHoursTotal) ==
    NumMul(NumDiv(catTotal, workingHoursTotal), Num(100))

\* mutant of actualPercentage: the fraction is not scaled to a percentage
actualPercentage_fraction(catTotal, workingHoursTotal) ==
    IF NumGt(workingHoursTotal, Zero) THEN NumDiv(catTotal, workingHoursTotal) ELSE Zero

\* workingHoursTotal > 0 ? (categoryTotals[cat] / workingHoursTotal) * 100 : 0
actualPercentage(catTotal, workingHoursTotal) ==
    IF NumGt(workingHoursTotal, Zero)
    THEN NumMul(NumDiv(catTotal, workingHoursTotal), Num(100))
    ELSE Zero

\* actualPercentages[cat] - settings.allocation[cat]
allocationDiffOf(actual, allocated) == NumSub(actual, allocated)

\* the week bucket a date is added to
weekStartOf(date, zone) == getWeekDates(date, zone)[1]

NewWeek == [Research |-> Zero, Teaching |-> Zero, Service |-> Zero, Other |-> Zero, total |-> Zero]

\* the weeklyData object after the forEach over dates: buckets in insertion order
RECURSIVE weeklyDataOf(_, _, _, _)
weeklyDataOf(ledger, dates, zone, acc) ==
    IF dates = <<>> THEN acc
    ELSE LET date == Head(dates)
             weekStart == weekStartOf(date, zone)
             isNew == weekStart \notin DOMAIN acc.at
             cur == IF isNew THEN NewWeek ELSE acc.at[weekStart]
             upd == [Research |-> NumAdd(cur.Research, getCategoryTotal(ledger, date, "Research")),
                     Teaching |-> NumAdd(cur.Teaching, getCategoryTotal(ledger, date, "Teaching")),
                     Service  |-> NumAdd(cur.Service, getCategoryTotal(ledger, date, "Service")),
                     Other    |-> NumAdd(cur.Other, getCategoryTotal(ledger, date, "Other")),
                     total    |-> NumAdd(cur.total, getDayTotal(ledger, date))]
         IN  weeklyDataOf(ledger, Tail(dates), zone,
                          [keys |-> IF isNew THEN Append(acc.keys, weekStart) ELSE acc.keys,
                           at   |-> Put(acc.at, weekStart, upd)])

\* Object.entries(weeklyData).map(([week, data]) => ({ week, ...data })).sort(by week)
weeklyRows(weekly) ==
    SortSeq([i \in DOMAIN weekly.keys |->
                [week |-> weekly.keys[i]] @@ weekly.at[weekly.keys[i]]],
            LAMBDA a, b : a.week < b.week)

\* mutant of guardedAverage: the division is not guarded
guardedAverage_unguarded(total, count) == NumDiv(total, Num(count))

\* weeksWorked > 0 ? totalHours / weeksWorked : 0; the same guard for the days
\* and for the count of each weekday
guardedAverage(total, count) ==
    IF count > 0 THEN NumDiv(total, Num(count)) ELSE Zero

\* totalHours - weeksWorked * settings.hoursPerWeek + settings.carryoverHours
overUnderOf(totalHours, weeksWorked, cfg) ==
    NumAdd(NumSub(totalHours, NumMul(Num(weeksWorked), cfg.hoursPerWeek)), cfg.carryoverHours)

dayNames == <<"Sun", "Mon", "Tue", "Wed", "Thu", "Fri", "Sat">>
dayOfWeekKeys == <<"Mon", "Tue", "Wed", "Thu", "Fri", "Sat", "Sun">>
\* dayNames[new Date(date).getDay()]
dayNameOf(date, zone) == dayNames[GetDay(NewDateFromKey(date), zone) + 1]

\* the { day, hours } rows of the day-of-week breakdown
dayOfWeekAvgOf(ledger, allDates, zone) ==
    [i \in DOMAIN dayOfWeekKeys |->
        LET day == dayOfWeekKeys[i]
            hit == SelectSeq(allDates, LAMBDA d : dayNameOf(d, zone) = day
                                                   /\ NumGt(getDayTotal(ledger, d), Zero))
            total == SumSeq([j \in DOMAIN hit |-> getDayTotal(ledger, hit[j])])
        IN  [day |-> day, hours |-> guardedAverage(total, Len(hit))]]

NullStats == [isNull |-> TRUE]

Stats(ledger, cfg, zone) ==
    LET allDates == allDatesOf(ledger)
    IN  IF Len(allDates) = 0 THEN NullStats
        ELSE
        LET totalHours == SumSeq([i \in DOMAIN allDates |-> getDayTotal(ledger, allDates[i])])
            categoryTotals == [cat \in Range(CategoryNames) |-> categoryTotalOf(ledger, allDates, cat)]
            workingHoursTotal ==
                NumAdd(NumAdd(categoryTotals.Research, categoryTotals.Teaching), categoryTotals.Service)
            actualPercentages ==
                [cat \in {"Research", "Teaching", "Service"} |->
                    actualPercentage(categoryTotals[cat], workingHoursTotal)]
            allocationDiff ==
                [cat \in {"Research", "Teaching", "Service"} |->
                    allocationDiffOf(actualPercentages[cat], cfg.allocation[cat])]
            weeklyData == weeklyDataOf(ledger, allDates, zone, [keys |-> <<>>, at |-> EmptyObj])
            weeksWorked == Len(weeklyData.keys)
        IN  [isNull |-> FALSE,
             allDates |-> allDates,
             totalHours |-> totalHours,
             workingHoursTotal |-> workingHoursTotal,
             categoryTotals |-> categoryTotals,
             actualPercentages |-> actualPercentages,
             allocationDiff |-> allocationDiff,
             weeksWorked |-> weeksWorked,
             daysWorked |-> Len(allDates),
             avgWeek |-> guardedAverage(totalHours, weeksWorked),
             avgDay |-> guardedAverage(totalHours, Len(allDates)),
             overUnder |-> overUnderOf(totalHours, weeksWorked, cfg),
             weeklyData |-> weeklyRows(weeklyData),
             dayOfWeekAvg |-> dayOfWeekAvgOf(ledger, allDates, zone)]

\* the statistics of the current state
stats == Stats(entries, settings, tz)

(***************************************************************************)
(* The allocation breakdown and its insights (analytics tab)               *)
(***************************************************************************)
\* Math.abs(diff) < 3 ? 'diff-neutral' : diff > 0 ? 'diff-positive' : 'diff-negative'
diffClass(diff) ==
    IF NumGt(Num(3), NumAbs(diff)) THEN "diff-neutral"
    ELSE IF NumGt(diff, Zero) THEN "diff-positive" ELSE "diff-negative"

\* mutant of showsOver: the message is shown from 5 points on
showsOver_fromFive(diff) == NumLe(Num(5), diff)

\* stats.allocationDiff[cat] > 5: the "more time than allocated" item is rendered
showsOver(diff) == NumGt(diff, Num(5))

\* stats.allocationDiff[cat] < -5: the "room for more" item is rendered
showsUnder(diff) == NumGt(Num(-5), diff)

\* the "closely matches your allocation" item is rendered
showsCloseMatch(allocationDiff) ==
    /\ NumLe(NumAbs(allocationDiff.Research), Num(5))
    /\ NumLe(NumAbs(allocationDiff.Teaching), Num(5))
    /\ NumLe(NumAbs(allocationDiff.Service), Num(5))

(***************************************************************************)
(* The missing-day detector (the missingDays memo)                         *)
(***************************************************************************)
\* today.setHours(0, 0, 0, 0): midnight, local time, of the local day of an instant
LocalMidnight(t, zone) == LocalDay(t, zone) * 24 - zone

\* dayOfWeek === 0 || dayOfWeek === 6
IsWeekend(dayOfWeek) == dayOfWeek = 0 \/ dayOfWeek = 6

\* mutant of pushMissing: the record is put in front of the earlier ones
pushMissing_unshift(list, record) == <<record>> \o list

\* missingDays.push(record)
pushMissing(list, record) == Append(list, record)

\* the while loop: acc.missing is missingDays, acc.scanned the values dateStr
\* took, one per day counted in daysChecked.  formatted stands for the label
\* toLocaleDateString gives: the local calendar day of currentDate.
RECURSIVE missingWalk(_, _, _, _, _, _, _)
missingWalk(ledger, days, includeWeekends, zone, currentDate, daysChecked, acc) ==
    IF ~(daysChecked < days) THEN acc
    ELSE LET dayOfWeek == GetDay(currentDate, zone)
             isWeekend == IsWeekend(dayOfWeek)
         IN  IF ~includeWeekends /\ isWeekend
             THEN missingWalk(ledger, days, includeWeekends, zone,
                              AddDays(currentDate, -1), daysChecked, acc)
             ELSE LET dateStr == ToISODate(currentDate)
                      dayTotal == getDayTotal(ledger, dateStr)
                      record == [date |-> dateStr,
                                 formatted |-> LocalDay(currentDate, zone),
                                 isWeekend |-> isWeekend]
                  IN  missingWalk(ledger, days, includeWeekends, zone,
                                  AddDays(currentDate, -1), daysChecked + 1,
                                  [missing |-> IF dayTotal = Zero
                                               THEN pushMissing(acc.missing, record)
                                               ELSE acc.missing,
                                   scanned |-> Append(acc.scanned, dateStr)])

\* the walk getMissingDays makes: from yesterday, local time, backwards
missingScan(ledger, cfg, clock, zone) ==
    IF ~cfg.missingDataWarning.enabled THEN [missing |-> <<>>, scanned |-> <<>>]
    ELSE missingWalk(ledger, cfg.missingDataWarning.days, cfg.missingDataWarning.includeWeekends,
                     zone, AddDays(LocalMidnight(clock, zone), -1), 0,
                     [missing |-> <<>>, scanned |-> <<>>])

getMissingDays(ledger, cfg, clock, zone) == missingScan(ledger, cfg, clock, zone).missing

\* the missing days of the current state
missingDays == getMissingDays(entries, settings, now, tz)

(***************************************************************************)
(* Initial state                                                           *)
(***************************************************************************)
DEFAULT_CATEGORIES ==
    [Research |-> <<"Writing", "Reading", "Grant writing", "Fieldwork", "Supervision", "Meetings", "Admin", "Misc">>,
     Teaching |-> <<"Delivery", "Preparation", "Unit design", "Marking", "Admin", "Meetings", "Misc">>,
     Service  |-> <<"Meetings", "Peer review", "Admin", "Training", "Public engagement", "Mentoring", "Misc">>,
     Other    |-> <<"Annual Leave", "Personal Leave", "Public Holiday">>]

DEFAULT_ALLOCATION == [Research |-> Num(40), Teaching |-> Num(40), Service |-> Num(20)]

InitialSettings ==
    [hoursPerWeek |-> Rat(75, 2),
     carryoverHours |-> Zero,
     startOfYear |-> "2025-01-06",
     allocation |-> DEFAULT_ALLOCATION,
     missingDataWarning |-> [enabled |-> TRUE, days |-> 5, includeWeekends |-> FALSE]]

EmptyLedger == [keys |-> <<>>, at |-> EmptyObj]

\* the clock when the page is opened: Monday 2025-03-17, 01:00 UTC
ClockStart == 14 * 24 + 1
\* no CSV file has been produced yet
NoDownload == [exported |-> FALSE]

\* JSON.stringify({ entries, categories, settings, googleSheetsUrl })
Saved(e, c, s, url) == [entries |-> e, categories |-> c, settings |-> s, googleSheetsUrl |-> url]

\* what an earlier session may have left in localStorage: nothing, or its last state
SavedLedger == [keys |-> <<8>>, at |-> 8 :> [Research |-> [Writing |-> Num(2)]]]
SavedSettings ==
    [InitialSettings EXCEPT !.hoursPerWeek = Num(2), !.carryoverHours = Num(-3),
                            !.allocation = [Research |-> Num(30), Teaching |-> Num(50), Service |-> Num(20)]]
InitialStorage ==
    {EmptyObj, Saved(SavedLedger, DEFAULT_CATEGORIES, SavedSettings, "")}

Init ==
    /\ tz \in TimeZones
    /\ pc = "mount"
    /\ pending = EmptyObj
    /\ storage \in InitialStorage
    /\ entries = EmptyLedger
    /\ categories = DEFAULT_CATEGORIES
    /\ settings = InitialSettings
    /\ editingTask = "null"
    /\ newTaskName = ""
    /\ googleSheetsUrl = ""
    /\ alertMsg = ""
    /\ now = ClockStart
    /\ download = NoDownload
    /\ roundTrip = [from |-> EmptyObj, over |-> EmptyObj]
    /\ syncStatus = "null"
    /\ attempts = <<>>
    /\ timers = 0

(***************************************************************************)
(* Mount: the load effect, the save effect, the render of the loaded state *)
(***************************************************************************)
\* a field of the saved record used as a condition: an object is truthy, the
\* string '' (a field only googleSheetsUrl can hold) is falsy
Truthy(obj, k) == k \in DOMAIN obj /\ (k = "googleSheetsUrl" => obj[k] # "")

\* the load effect: each setter call is queued until the effects have run
loadEffect ==
    /\ pc = "mount"
    /\ pending' = [k \in {x \in DOMAIN storage : Truthy(storage, x)} |-> storage[k]]
    /\ pc' = "loaded"
    /\ UNCHANGED <<reportVars, syncVars, tz, storage, entries, categories, settings, editingTask, newTaskName,
                   googleSheetsUrl, alertMsg>>

\* the save effect of the first render: it writes the state of that render
saveEffect ==
    /\ pc = "loaded"
    /\ storage' = Saved(entries, categories, settings, googleSheetsUrl)
    /\ pc' = "saved"
    /\ UNCHANGED <<reportVars, syncVars, tz, pending, entries, categories, settings, editingTask, newTaskName,
                   googleSheetsUrl, alertMsg>>

\* the render that applies the queued updates, and its save effect
renderLoaded ==
    /\ pc = "saved"
    /\ entries' = IF "entries" \in DOMAIN pending THEN pending.entries ELSE entries
    /\ categories' = IF "categories" \in DOMAIN pending THEN pending.categories ELSE categories
    /\ settings' = IF "settings" \in DOMAIN pending THEN Spread(settings, pending.settings) ELSE settings
    /\ googleSheetsUrl' = IF "googleSheetsUrl" \in DOMAIN pending THEN pending.googleSheetsUrl
                          ELSE googleSheetsUrl
    /\ storage' = Saved(entries', categories', settings', googleSheetsUrl')
    /\ pending' = EmptyObj
    /\ pc' = "ready"
    /\ UNCHANGED <<reportVars, syncVars, tz, editingTask, newTaskName, alertMsg>>

(***************************************************************************)
(* Ledger and settings handlers                                            *)
(***************************************************************************)
RECURSIVE SumInts(_)
SumInts(f) ==
    IF DOMAIN f = {} THEN 0
    ELSE LET k == CHOOSE x \in DOMAIN f : TRUE
         IN  f[k] + SumInts([x \in DOMAIN f \ {k} |-> f[x]])

\* the number of (date, category, task) cells of a ledger
CellCount(ledger) ==
    SumInts([d \in DOMAIN ledger.at |->
                SumInts([c \in DOMAIN ledger.at[d] |-> Cardinality(DOMAIN ledger.at[d][c])])])

\* the ledger setEntries produces in updateEntry
updatedEntries(prev, date, category, task, numValue) ==
    LET prevDate == GetOrEmpty(prev.at, date)
        prevCat == GetOrEmpty(prevDate, category)
    IN  [keys |-> IF date \in DOMAIN prev.at THEN prev.keys ELSE Append(prev.keys, date),
         at   |-> Put(prev.at, date, Put(prevDate, category, Put(prevCat, task, numValue)))]

\* const numValue = parseFloat(value) || 0
numValueOf(value) == OrZero(parseFloat(value))

\* the hours inputs rendered: one per task of each category of the taxonomy
updateEntry(date, category, task, value) ==
    /\ pc = "ready"
    /\ category \in DOMAIN categories
    /\ Includes(categories[category], task)
    /\ entries' = updatedEntries(entries, date, category, task, numValueOf(value))
    /\ CellCount(entries') <= MaxCells
    /\ storage' = Saved(entries', categories, settings, googleSheetsUrl)
    /\ UNCHANGED <<reportVars, syncVars, tz, pc, pending, categories, settings, editingTask, newTaskName,
                   googleSheetsUrl, alertMsg>>

\* mutant of importFile: a missing entries field empties the ledger
importFile_resetsAbsent(file) ==
    /\ pc = "ready"
    /\ IF file.parses
       THEN /\ entries' = IF "entries" \in DOMAIN file.data THEN file.data.entries ELSE EmptyLedger
            /\ categories' = IF "categories" \in DOMAIN file.data THEN file.data.categories ELSE categories
            /\ settings' = IF "settings" \in DOMAIN file.data THEN Spread(settings, file.data.settings)
                           ELSE settings
            /\ alertMsg' = "Data imported successfully!"
       ELSE /\ alertMsg' = "Invalid file format"
            /\ UNCHANGED <<entries, categories, settings>>
    /\ storage' = Saved(entries', categories', settings', googleSheetsUrl)
    /\ UNCHANGED <<reportVars, syncVars, tz, pc, pending, editingTask, newTaskName, googleSheetsUrl>>

\* reader.onload of the import input; file.parses is whether JSON.parse succeeds
applyFile(file) ==
    /\ pc = "ready"
    /\ IF file.parses
       THEN /\ entries' = IF "entries" \in DOMAIN file.data THEN file.data.entries ELSE entries
            /\ categories' = IF "categories" \in DOMAIN file.data THEN file.data.categories ELSE categories
            /\ settings' = IF "settings" \in DOMAIN file.data THEN Spread(settings, file.data.settings)
                           ELSE settings
            /\ alertMsg' = "Data imported successfully!"
       ELSE /\ alertMsg' = "Invalid file format"
            /\ UNCHANGED <<entries, categories, settings>>
    /\ storage' = Saved(entries', categories', settings', googleSheetsUrl)

importFile(file) ==
    /\ applyFile(file)
    /\ UNCHANGED <<reportVars, syncVars, tz, pc, pending, editingTask, newTaskName, googleSheetsUrl>>

setHoursPerWeek(value) ==
    /\ pc = "ready"
    /\ settings' = [settings EXCEPT !.hoursPerWeek = OrZero(parseFloat(value))]
    /\ storage' = Saved(entries, categories, settings', googleSheetsUrl)
    /\ UNCHANGED <<reportVars, syncVars, tz, pc, pending, entries, categories, editingTask, newTaskName,
                   googleSheetsUrl, alertMsg>>

setCarryoverHours(value) ==
    /\ pc = "ready"
    /\ settings' = [settings EXCEPT !.carryoverHours = OrZero(parseFloat(value))]
    /\ storage' = Saved(entries, categories, settings', googleSheetsUrl)
    /\ UNCHANGED <<reportVars, syncVars, tz, pc, pending, entries, categories, editingTask, newTaskName,
                   googleSheetsUrl, alertMsg>>

setAllocation(cat, value) ==
    /\ pc = "ready"
    /\ settings' = [settings EXCEPT !.allocation = Put(settings.allocation, cat, OrZero(parseFloat(value)))]
    /\ storage' = Saved(entries, categories, settings', googleSheetsUrl)
    /\ UNCHANGED <<reportVars, syncVars, tz, pc, pending, entries, categories, editingTask, newTaskName,
                   googleSheetsUrl, alertMsg>>

\* parseInt on the texts typed into the days input
parseInt(raw) ==
    CASE raw = "0"   -> Num(0)
      [] raw = "1"   -> Num(1)
      [] raw = "3"   -> Num(3)
      [] raw = "2.5" -> Num(2)
      [] raw = "45"  -> Num(45)
      [] raw = "-3"  -> Num(-3)
      [] OTHER       -> NaN

\* the checkbox "Enable missing data warnings"; a checkbox reports the state it was toggled to
setMissingDataEnabled(checked) ==
    /\ pc = "ready"
    /\ checked # settings.missingDataWarning.enabled
    /\ settings' = [settings EXCEPT !.missingDataWarning =
                       Put(settings.missingDataWarning, "enabled", checked)]
    /\ storage' = Saved(entries, categories, settings', googleSheetsUrl)
    /\ UNCHANGED <<reportVars, syncVars, tz, pc, pending, entries, categories, editingTask,
                   newTaskName, googleSheetsUrl, alertMsg>>

\* the "Check past ... days" input, rendered while the warnings are enabled:
\* days: parseInt(e.target.value) || 5
setMissingDataDays(value) ==
    /\ pc = "ready"
    /\ settings.missingDataWarning.enabled
    /\ settings' = [settings EXCEPT !.missingDataWarning =
                       Put(settings.missingDataWarning, "days",
                           LET parsed == parseInt(value)
                           IN  IF parsed = NaN \/ parsed = Zero THEN 5 ELSE parsed.n)]
    /\ storage' = Saved(entries, categories, settings', googleSheetsUrl)
    /\ UNCHANGED <<reportVars, syncVars, tz, pc, pending, entries, categories, editingTask,
                   newTaskName, googleSheetsUrl, alertMsg>>

\* the checkbox "Include weekends", rendered while the warnings are enabled
setIncludeWeekends(checked) ==
    /\ pc = "ready"
    /\ settings.missingDataWarning.enabled
    /\ checked # settings.missingDataWarning.includeWeekends
    /\ settings' = [settings EXCEPT !.missingDataWarning =
                       Put(settings.missingDataWarning, "includeWeekends", checked)]
    /\ storage' = Saved(entries, categories, settings', googleSheetsUrl)
    /\ UNCHANGED <<reportVars, syncVars, tz, pc, pending, entries, categories, editingTask,
                   newTaskName, googleSheetsUrl, alertMsg>>

\* time passes: the clock moves on
tick ==
    /\ now < ClockStart + MaxTicks * ClockStep
    /\ now' = now + ClockStep
    /\ UNCHANGED <<download, roundTrip, syncVars, tz, pc, pending, storage, entries, categories, settings,
                   editingTask, newTaskName, googleSheetsUrl, alertMsg>>

(***************************************************************************)
(* The detailed export                                                     *)
(***************************************************************************)
\* mutant of isExported: every cell that is not 0 gets a row
isExported_nonZero(hours) == hours # Zero

\* if (hours > 0)
isExported(hours) == NumGt(hours, Zero)

\* the elements of a set, one after the other
RECURSIVE SeqOfSet(_)
SeqOfSet(S) ==
    IF S = {} THEN <<>>
    ELSE LET x == CHOOSE y \in S : TRUE IN <<x>> \o SeqOfSet(S \ {x})

\* the rows appended for one date: Date, Day, Category, Task, Hours.  The code
\* lists the cells of a date in insertion order, which the ledger of the model
\* does not keep; the rows of one date come in an arbitrary fixed order.
csvRowsOfDate(ledger, date, zone) ==
    LET cells == UNION {{<<c, t>> : t \in DOMAIN ledger.at[date][c]} : c \in DOMAIN ledger.at[date]}
        kept == SeqOfSet({cell \in cells : isExported(ledger.at[date][cell[1]][cell[2]])})
    IN  [i \in DOMAIN kept |->
            [date |-> date, day |-> dayNameOf(date, zone),
             category |-> kept[i][1], task |-> kept[i][2],
             hours |-> ledger.at[date][kept[i][1]][kept[i][2]]]]

\* the rows of the file after allDates.forEach
RECURSIVE csvRows(_, _, _)
csvRows(ledger, dates, zone) ==
    IF dates = <<>> THEN <<>>
    ELSE csvRowsOfDate(ledger, Head(dates), zone) \o csvRows(ledger, Tail(dates), zone)

\* the "Export CSV" button
exportToCSV ==
    /\ pc = "ready"
    /\ LET allDates == SortKeys(entries.keys)
       IN  IF Len(allDates) = 0
           THEN /\ alertMsg' = "No data to export"
                /\ UNCHANGED download
           ELSE /\ download' = [exported |-> TRUE, rows |-> csvRows(entries, allDates, tz)]
                /\ UNCHANGED alertMsg
    /\ UNCHANGED <<now, roundTrip, syncVars, tz, pc, pending, storage, entries, categories, settings,
                   editingTask, newTaskName, googleSheetsUrl>>

(***************************************************************************)
(* Remote sync                                                             *)
(***************************************************************************)
SyncUrls == {"", "https://script.google.com/macros/s/x/exec"}

\* onChange of the Web App URL input
setGoogleSheetsUrl(text) ==
    /\ pc = "ready"
    /\ googleSheetsUrl' = text
    /\ storage' = Saved(entries, categories, settings, googleSheetsUrl')
    /\ UNCHANGED <<reportVars, syncVars, tz, pc, pending, entries, categories, settings,
                   editingTask, newTaskName, alertMsg>>

\* the "Sync Now" button, disabled while syncStatus is 'syncing': the handler
\* up to its await, the fetch sent
syncToGoogleSheets ==
    /\ pc = "ready"
    /\ syncStatus # "syncing"
    /\ IF googleSheetsUrl = ""
       THEN /\ alertMsg' = "Please enter your Google Sheets Web App URL in settings first."
            /\ UNCHANGED syncVars
       ELSE /\ Len(attempts) < MaxAttempts
            /\ syncStatus' = "syncing"
            /\ attempts' = Append(attempts, "pending")
            /\ UNCHANGED <<timers, alertMsg>>
    /\ UNCHANGED <<reportVars, tz, pc, pending, storage, entries, categories, settings,
                   editingTask, newTaskName, googleSheetsUrl>>

\* the fetch of attempt i resolves: the rest of the try block
fetchResolved(i) ==
    /\ i \in DOMAIN attempts
    /\ attempts[i] = "pending"
    /\ attempts' = [attempts EXCEPT ![i] = "success"]
    /\ syncStatus' = "success"
    /\ timers' = timers + 1
    /\ UNCHANGED <<reportVars, tz, pc, pending, storage, entries, categories, settings,
                   editingTask, newTaskName, googleSheetsUrl, alertMsg>>

\* mutant of fetchRejected: the request is sent again after a failure
fetchRejected_retries(i) ==
    /\ i \in DOMAIN attempts
    /\ attempts[i] = "pending"
    /\ attempts' = IF Len(attempts) < MaxAttempts
                   THEN Append([attempts EXCEPT ![i] = "error"], "pending")
                   ELSE [attempts EXCEPT ![i] = "error"]
    /\ syncStatus' = "error"
    /\ timers' = timers + 1
    /\ UNCHANGED <<reportVars, tz, pc, pending, storage, entries, categories, settings,
                   editingTask, newTaskName, googleSheetsUrl, alertMsg>>

\* the fetch of attempt i rejects: the catch block
fetchRejected(i) ==
    /\ i \in DOMAIN attempts
    /\ attempts[i] = "pending"
    /\ attempts' = [attempts EXCEPT ![i] = "error"]
    /\ syncStatus' = "error"
    /\ timers' = timers + 1
    /\ UNCHANGED <<reportVars, tz, pc, pending, storage, entries, categories, settings,
                   editingTask, newTaskName, googleSheetsUrl, alertMsg>>

\* a callback of setTimeout(() => setSyncStatus(null), 3000) runs
clearSyncStatus ==
    /\ timers > 0
    /\ timers' = timers - 1
    /\ syncStatus' = "null"
    /\ UNCHANGED <<attempts, reportVars, tz, pc, pending, storage, entries, categories, settings,
                   editingTask, newTaskName, googleSheetsUrl, alertMsg>>

(***************************************************************************)
(* The weekly-summary export                                               *)
(***************************************************************************)
\* Number.prototype.toFixed(2), as the number the text denotes: x rounded to
\* hundredths, halves away from zero
toFixed2(x) ==
    IF x.d = 0 THEN x
    ELSE LET sign == IF x.n < 0 THEN -1 ELSE 1
         IN  Rat(sign * ((Abs(x.n) * 200 + x.d) \div (2 * x.d)), 100)

NewSummaryWeek == [Research |-> Zero, Teaching |-> Zero, Service |-> Zero, Other |-> Zero]

\* the weeklyData object of exportSummaryCSV after the forEach over all dates
RECURSIVE summaryWeeksOf(_, _, _, _)
summaryWeeksOf(ledger, dates, zone, acc) ==
    IF dates = <<>> THEN acc
    ELSE LET date == Head(dates)
             weekStart == getWeekDates(date, zone)[1]
             isNew == weekStart \notin DOMAIN acc.at
             cur == IF isNew THEN NewSummaryWeek ELSE acc.at[weekStart]
             upd == [cat \in DOMAIN cur |-> NumAdd(cur[cat], getCategoryTotal(ledger, date, cat))]
         IN  summaryWeeksOf(ledger, Tail(dates), zone,
                            [keys |-> IF isNew THEN Append(acc.keys, weekStart) ELSE acc.keys,
                             at   |-> Put(acc.at, weekStart, upd)])

\* the rows of the file: Week Starting, the four category figures, Total Hours
summaryRows(weekly) ==
    LET sorted == SortKeys(weekly.keys)
    IN  [i \in DOMAIN sorted |->
            LET data == weekly.at[sorted[i]]
                total == NumAdd(NumAdd(NumAdd(data.Research, data.Teaching), data.Service), data.Other)
            IN  [week |-> sorted[i],
                 Research |-> toFixed2(data.Research), Teaching |-> toFixed2(data.Teaching),
                 Service |-> toFixed2(data.Service), Other |-> toFixed2(data.Other),
                 total |-> toFixed2(total)]]

\* the "Export Weekly Summary" button
exportSummaryCSV ==
    /\ pc = "ready"
    /\ LET allDates == SortKeys(entries.keys)
       IN  IF Len(allDates) = 0
           THEN /\ alertMsg' = "No data to export"
                /\ UNCHANGED download
           ELSE /\ download' = [exported |-> TRUE,
                                rows |-> summaryRows(summaryWeeksOf(entries, allDates, tz, EmptyLedger))]
                /\ UNCHANGED alertMsg
    /\ UNCHANGED <<now, roundTrip, syncVars, tz, pc, pending, storage, entries, categories, settings,
                   editingTask, newTaskName, googleSheetsUrl>>

(***************************************************************************)
(* The full backup                                                         *)
(***************************************************************************)
\* JSON.stringify of a number: a non-finite number is written null; a string
\* stays a string
JsonNull == [null |-> TRUE]
jsonCell(v) ==
    IF "text" \in DOMAIN v THEN v
    ELSE IF v.d = 0 THEN JsonNull ELSE v

\* JSON.stringify of the ledger: the keys in insertion order
jsonEntries(ledger) ==
    [keys |-> ledger.keys,
     at   |-> [d \in DOMAIN ledger.at |->
                 [c \in DOMAIN ledger.at[d] |->
                     [t \in DOMAIN ledger.at[d][c] |-> jsonCell(ledger.at[d][c][t])]]]]

\* JSON.stringify of the settings
jsonSettings(s) ==
    [k \in DOMAIN s |->
        CASE k \in {"hoursPerWeek", "carryoverHours"} -> jsonCell(s[k])
          [] k = "allocation" -> [c \in DOMAIN s[k] |-> jsonCell(s[k][c])]
          [] OTHER -> s[k]]

\* mutant of backupFile: the taxonomy is left out of the backup
backupFile_withoutCategories(e, c, s) ==
    [parses |-> TRUE, data |-> [entries |-> jsonEntries(e), settings |-> jsonSettings(s)]]

\* the file of JSON.stringify({ entries, categories, settings }, null, 2)
backupFile(e, c, s) ==
    [parses |-> TRUE,
     data |-> [entries |-> jsonEntries(e), categories |-> c, settings |-> jsonSettings(s)]]

\* the three fields a backup is taken of
Snapshot == [entries |-> entries, categories |-> categories, settings |-> settings]

\* the "Export Full Backup (JSON)" button
exportBackup ==
    /\ pc = "ready"
    /\ download' = [exported |-> TRUE, file |-> backupFile(entries, categories, settings)]
    /\ roundTrip' = [roundTrip EXCEPT !.from = Snapshot]
    /\ UNCHANGED <<now, syncVars, tz, pc, pending, storage, entries, categories, settings,
                   editingTask, newTaskName, googleSheetsUrl, alertMsg>>

\* the import input given the backup file downloaded last
importBackup ==
    /\ download # NoDownload
    /\ "file" \in DOMAIN download
    /\ applyFile(download.file)
    /\ roundTrip' = [roundTrip EXCEPT !.over = Snapshot]
    /\ UNCHANGED <<now, download, syncVars, tz, pc, pending, editingTask, newTaskName, googleSheetsUrl>>

(***************************************************************************)
(* Taxonomy handlers                                                       *)
(***************************************************************************)
\* String.prototype.trim on the texts typed in the model
TypedNames == {"  ", " Ethics review ", "Writing", "writing"}
trim(text) ==
    CASE text = "  " -> ""
      [] text = " Ethics review " -> "Ethics review"
      [] OTHER -> text

\* the "+ Add Task" button of a category
startEditing(category) ==
    /\ pc = "ready"
    /\ editingTask # category
    /\ editingTask' = category
    /\ UNCHANGED <<reportVars, syncVars, tz, pc, pending, storage, entries, categories, settings, newTaskName,
                   googleSheetsUrl, alertMsg>>

\* onChange of the add-task input, rendered for the category being edited
typeTaskName(text) ==
    /\ pc = "ready"
    /\ editingTask # "null"
    /\ newTaskName' = text
    /\ UNCHANGED <<reportVars, syncVars, tz, pc, pending, storage, entries, categories, settings, editingTask,
                   googleSheetsUrl, alertMsg>>

\* the cancel button of the add-task input
cancelEditing ==
    /\ pc = "ready"
    /\ editingTask # "null"
    /\ editingTask' = "null"
    /\ newTaskName' = ""
    /\ UNCHANGED <<reportVars, syncVars, tz, pc, pending, storage, entries, categories, settings,
                   googleSheetsUrl, alertMsg>>

\* mutant of addTask: the duplicate test reads the untrimmed text
addTask_untrimmedTest(category) ==
    /\ pc = "ready"
    /\ editingTask = category
    /\ IF trim(newTaskName) = ""
       THEN UNCHANGED <<categories, newTaskName, editingTask, alertMsg, storage>>
       ELSE IF Includes(categories[category], newTaskName)
       THEN /\ alertMsg' = "This task already exists in this category"
            /\ UNCHANGED <<categories, newTaskName, editingTask, storage>>
       ELSE /\ Len(categories[category]) < Len(DEFAULT_CATEGORIES[category]) + MaxAdded
            /\ categories' = Put(categories, category, Append(categories[category], trim(newTaskName)))
            /\ newTaskName' = ""
            /\ editingTask' = "null"
            /\ storage' = Saved(entries, categories', settings, googleSheetsUrl)
            /\ UNCHANGED alertMsg
    /\ UNCHANGED <<reportVars, syncVars, tz, pc, pending, entries, settings, googleSheetsUrl>>

\* Enter in the add-task input or its Add button, both rendered for editingTask only
addTask(category) ==
    /\ pc = "ready"
    /\ editingTask = category
    /\ IF trim(newTaskName) = ""
       THEN UNCHANGED <<categories, newTaskName, editingTask, alertMsg, storage>>
       ELSE IF Includes(categories[category], trim(newTaskName))
       THEN /\ alertMsg' = "This task already exists in this category"
            /\ UNCHANGED <<categories, newTaskName, editingTask, storage>>
       ELSE /\ Len(categories[category]) < Len(DEFAULT_CATEGORIES[category]) + MaxAdded
            /\ categories' = Put(categories, category, Append(categories[category], trim(newTaskName)))
            /\ newTaskName' = ""
            /\ editingTask' = "null"
            /\ storage' = Saved(entries, categories', settings, googleSheetsUrl)
            /\ UNCHANGED alertMsg
    /\ UNCHANGED <<reportVars, syncVars, tz, pc, pending, entries, settings, googleSheetsUrl>>

\* mutant of removeTask: the hours recorded against the task are deleted with it
removeTask_deletesHours(category, task, confirmed) ==
    /\ pc = "ready"
    /\ category \in DOMAIN categories
    /\ Includes(categories[category], task)
    /\ categories' = IF confirmed THEN Put(categories, category, FilterOut(categories[category], task))
                     ELSE categories
    /\ entries' = IF confirmed
                  THEN [entries EXCEPT !.at =
                          [d \in DOMAIN entries.at |->
                              [c \in DOMAIN entries.at[d] |->
                                  IF c = category
                                  THEN [k \in DOMAIN entries.at[d][c] \ {task} |-> entries.at[d][c][k]]
                                  ELSE entries.at[d][c]]]]
                  ELSE entries
    /\ storage' = Saved(entries', categories', settings, googleSheetsUrl)
    /\ UNCHANGED <<reportVars, syncVars, tz, pc, pending, settings, editingTask, newTaskName,
                   googleSheetsUrl, alertMsg>>

\* the Remove button of a task; confirmed is the answer to confirm()
removeTask(category, task, confirmed) ==
    /\ pc = "ready"
    /\ category \in DOMAIN categories
    /\ Includes(categories[category], task)
    /\ categories' = IF confirmed THEN Put(categories, category, FilterOut(categories[category], task))
                     ELSE categories
    /\ storage' = Saved(entries, categories', settings, googleSheetsUrl)
    /\ UNCHANGED <<reportVars, syncVars, tz, pc, pending, entries, settings, editingTask, newTaskName,
                   googleSheetsUrl, alertMsg>>

\* the reset-to-defaults button
resetTasks(confirmed) ==
    /\ pc = "ready"
    /\ categories' = IF confirmed THEN DEFAULT_CATEGORIES ELSE categories
    /\ storage' = Saved(entries, categories', settings, googleSheetsUrl)
    /\ UNCHANGED <<reportVars, syncVars, tz, pc, pending, entries, settings, editingTask, newTaskName,
                   googleSheetsUrl, alertMsg>>

(***************************************************************************)
(* Inputs of the model                                                     *)
(***************************************************************************)
\* the hours inputs exercised: category -> tasks
EntryTasks ==
    [Research |-> {"Writing"}, Teaching |-> {"Delivery"},
     Service |-> {"Admin"}, Other |-> {"Annual Leave"}]

ImportedLedger ==
    [keys |-> <<14, 7>>,
     at   |-> (14 :> [Teaching |-> [Delivery |-> Num(3)]]) @@ (7 :> [Research |-> [Writing |-> Num(4)]])]
BadFile == [parses |-> FALSE]
LedgerFile == [parses |-> TRUE, data |-> [entries |-> ImportedLedger]]
TaxonomyFile ==
    [parses |-> TRUE,
     data |-> [categories |-> [DEFAULT_CATEGORIES EXCEPT !.Other = <<"Annual Leave", "Annual Leave">>]]]
\* a file that holds only one key of the settings
SettingsFile == [parses |-> TRUE, data |-> [settings |-> [hoursPerWeek |-> Num(10)]]]
\* a file that parses but whose entries are no date -> category -> task -> number
\* map: the hours of a cell are the JSON string "two", written [text |-> "two"]
MalformedFile ==
    [parses |-> TRUE,
     data |-> [entries |-> [keys |-> <<7>>, at |-> 7 :> [Research |-> [Writing |-> [text |-> "two"]]]],
               settings |-> [carryoverHours |-> Num(2)]]]
ImportFiles == {BadFile, LedgerFile, SettingsFile, MalformedFile}

\* a file whose ledger holds hours under a category that is none of the four
ForeignCategoryFile ==
    [parses |-> TRUE,
     data |-> [entries |-> [keys |-> <<7>>,
                            at |-> 7 :> [Research |-> [Writing |-> Num(2)], Admin |-> [Email |-> Num(1)]]]]]

\* a backup whose categories object has no Service key
PartialTaxonomyFile ==
    [parses |-> TRUE,
     data |-> [categories |-> [c \in {"Research", "Teaching", "Other"} |-> DEFAULT_CATEGORIES[c]]]]

EditCategories == {"Research", "Other"}
RemovableTasks == {"Writing", "Annual Leave"}

(***************************************************************************)
(* Specifications                                                          *)
(***************************************************************************)
Mount == loadEffect \/ saveEffect \/ renderLoaded

\* the ledger: mount, then hours typed into the inputs
NextLedger ==
    \/ Mount
    \/ \E d \in DateKeys, c \in DOMAIN EntryTasks, v \in RawInputs :
          \E t \in EntryTasks[c] : updateEntry(d, c, t, v)

\* the settings and import
NextSettings ==
    \/ Mount
    \/ \E f \in ImportFiles : importFile(f)
    \/ setHoursPerWeek("2")
    \/ setCarryoverHours("-3")
    \/ setAllocation("Research", "30")
    \/ \E b \in BOOLEAN : setMissingDataEnabled(b)
    \/ \E v \in {"0", "2.5", "45", "-3"} : setMissingDataDays(v)
    \/ \E b \in BOOLEAN : setIncludeWeekends(b)
    \/ removeTask("Research", "Writing", TRUE)

SpecSettings == Init /\ [][NextSettings]_vars

SpecLedger == Init /\ [][NextLedger]_vars

\* the missing-day detector: hours logged on the days before today, the
\* policy edited, the clock moving
NextDetector ==
    \/ Mount
    \/ \E d \in DetectorDates, v \in {"", "1.5"} : updateEntry(d, "Research", "Writing", v)
    \/ \E b \in BOOLEAN : setMissingDataEnabled(b)
    \/ \E v \in {"1", "3", "-3"} : setMissingDataDays(v)
    \/ \E b \in BOOLEAN : setIncludeWeekends(b)
    \/ tick

SpecDetector == Init /\ [][NextDetector]_vars

\* the detailed export: hours typed in, then exported
NextExport ==
    \/ Mount
    \/ \E d \in {7, 14}, c \in {"Research", "Teaching"}, v \in RawInputs :
          \E t \in EntryTasks[c] : updateEntry(d, c, t, v)
    \/ exportToCSV
    \/ exportSummaryCSV

SpecExport == Init /\ [][NextExport]_vars

\* the allocation breakdown: hours logged, the allocation percentages edited
NextBanding ==
    \/ Mount
    \/ \E c \in {"Research", "Teaching"} : \E t \in EntryTasks[c] : updateEntry(7, c, t, "1.5")
    \/ \E c \in {"Research", "Teaching", "Service"}, v \in {"", "5", "6", "95", "97", "98"} :
          setAllocation(c, v)

SpecBanding == Init /\ [][NextBanding]_vars

\* the remote sync, with hours typed in while a request is on its way
NextSync ==
    \/ Mount
    \/ \E text \in SyncUrls : setGoogleSheetsUrl(text)
    \/ updateEntry(7, "Research", "Writing", "1.5")
    \/ syncToGoogleSheets
    \/ \E i \in 1..MaxAttempts : fetchResolved(i)
    \/ \E i \in 1..MaxAttempts : fetchRejected(i)
    \/ clearSyncStatus

\* the browser settles every fetch it was handed, with a response or with a
\* network error
SpecSync ==
    /\ Init /\ [][NextSync]_vars
    /\ WF_vars(\E i \in 1..MaxAttempts : fetchResolved(i) \/ fetchRejected(i))

\* the taxonomy; the ledger a saved session left holds hours of a task edited
NextTasks ==
    \/ Mount
    \/ \E c \in EditCategories : startEditing(c)
    \/ \E text \in TypedNames : typeTaskName(text)
    \/ cancelEditing
    \/ \E c \in EditCategories : addTask(c)
    \/ \E c \in EditCategories, t \in RemovableTasks, ok \in BOOLEAN : removeTask(c, t, ok)
    \/ \E ok \in BOOLEAN : resetTasks(ok)
    \/ \E f \in {TaxonomyFile, PartialTaxonomyFile} : importFile(f)

SpecTasks == Init /\ [][NextTasks]_vars

\* the full backup: hours, taxonomy and settings edited, a file imported, the
\* backup exported and imported back
NextBackup ==
    \/ Mount
    \/ \E v \in {"1.5", "-1"} : updateEntry(7, "Research", "Writing", v)
    \/ setHoursPerWeek("2")
    \/ removeTask("Research", "Writing", TRUE)
    \/ importFile(MalformedFile)
    \/ exportBackup
    \/ importBackup

SpecBackup == Init /\ [][NextBackup]_vars

\* the figures of the aggregation: a ledger loaded at startup, imported, and
\* written by hand
NextFigures ==
    \/ Mount
    \/ \E d \in {7, 14}, c \in {"Research", "Other"}, v \in {"1.5", "-1"} :
          \E t \in EntryTasks[c] : updateEntry(d, c, t, v)
    \/ \E f \in {LedgerFile, ForeignCategoryFile} : importFile(f)

SpecFigures == Init /\ [][NextFigures]_vars

Next == NextLedger \/ NextSettings \/ NextTasks \/ NextDetector \/ NextExport \/ NextSync \/ NextBanding \/ NextBackup \/ NextFigures

Spec == Init /\ [][Next]_vars

(***************************************************************************)
(* Reference notions the properties are stated with                        *)
(***************************************************************************)
\* the ledger dates whose day total is strictly positive
ActiveDates == {d \in DOMAIN entries.at : NumGt(getDayTotal(entries, d), Zero)}
\* the Monday on or before a date key (key 0 is a Monday)
MondayOf(d) == d - (d % 7)
\* the sum of a category over a set of dates, and of the day totals
CategorySum(dates, cat) == SumValues([d \in dates |-> getCategoryTotal(entries, d, cat)])
DaySum(dates) == SumValues([d \in dates |-> getDayTotal(entries, d)])
IsAscending(s) == \A i, j \in DOMAIN s : i < j => s[i] < s[j]
\* the number an hours input shows: Number('') is 0
HoursShown(shown) == IF "text" \in DOMAIN shown THEN Zero ELSE shown.num
\* max(0, parsed value), an unparseable text counting as 0
ClampedInput(value) ==
    LET parsed == parseFloat(value)
    IN  IF NumGt(parsed, Zero) THEN parsed ELSE Zero
WorkingCategories == {"Research", "Teaching", "Service"}
\* a ledger all of whose hours are numbers
IsWellFormedLedger(ledger) ==
    \A d \in DOMAIN ledger.at : \A c \in DOMAIN ledger.at[d] : \A t \in DOMAIN ledger.at[d][c] :
       DOMAIN ledger.at[d][c][t] = {"n", "d"}
\* an import payload that does not parse or carries a ledger that is not well formed
IsMalformed(file) ==
    ~file.parses \/ ("entries" \in DOMAIN file.data /\ ~IsWellFormedLedger(file.data.entries))
\* today's date key: the calendar day the local clock shows
Today == LocalDay(now, tz)
\* a date key of a Monday to a Friday (key 0 is a Monday)
IsWeekdayKey(d) == d % 7 \in 0..4
\* the date keys the missing-data policy lets the detector look at
IsEligibleKey(d) == settings.missingDataWarning.includeWeekends \/ IsWeekdayKey(d)
\* the `days` most recent eligible date keys before today
LookbackWindow ==
    {d \in (Today - 21)..(Today - 1) :
        /\ IsEligibleKey(d)
        /\ Cardinality({e \in d..(Today - 1) : IsEligibleKey(e)}) <= settings.missingDataWarning.days}

(***************************************************************************)
(* Properties                                                              *)
(***************************************************************************)
\* C1: after updateEntry(d, c, t, raw) the hours read back for (d, c, t) are
\* max(0, parsed raw), an unparseable raw giving 0: nothing negative is stored.
C1_SetThenGetIsClamped ==
    [][\A d \in DateKeys, c \in DOMAIN EntryTasks, v \in RawInputs :
          \A t \in EntryTasks[c] :
             updateEntry(d, c, t, v) =>
                /\ HoursShown(getEntryValue(entries', d, c, t)) = ClampedInput(v)
                /\ ~NumGt(Zero, entries'.at[d][c][t])]_vars

\* C2: every hour quantity of the ledger is a finite number >= 0, and so are
\* every day total and category total.
C2_LedgerNonNegative ==
    \A d \in DOMAIN entries.at :
       /\ ~NumGt(Zero, getDayTotal(entries, d))
       /\ \A c \in DOMAIN entries.at[d] :
             /\ ~NumGt(Zero, getCategoryTotal(entries, d, c))
             /\ \A t \in DOMAIN entries.at[d][c] :
                   IsFinite(entries.at[d][c][t]) /\ ~NumGt(Zero, entries.at[d][c][t])

\* C3 as stated: when the working-hours total is 0, every working category's
\* actual percentage and allocation delta are 0.
C3_ZeroWorkingHoursZeroDelta ==
    LET st == stats IN
    (~st.isNull /\ st.workingHoursTotal = Zero) =>
        \A cat \in WorkingCategories :
           st.actualPercentages[cat] = Zero /\ st.allocationDiff[cat] = Zero

\* C3 amended: when statistics exist and the working-hours total is 0, every
\* working category's actual percentage is 0 and its allocation delta is minus
\* the configured percentage.
C3_ZeroWorkingHoursZeroPercentage ==
    LET st == stats IN
    (~st.isNull /\ st.workingHoursTotal = Zero) =>
        \A cat \in WorkingCategories :
           /\ st.actualPercentages[cat] = Zero
           /\ st.allocationDiff[cat] = NumSub(Zero, settings.allocation[cat])

\* only Other hours are logged, so statistics exist with a working-hours total of 0
C3_Witness ==
    LET st == stats IN
    /\ ~st.isNull
    /\ st.workingHoursTotal = Zero
    /\ NumGt(st.categoryTotals.Other, Zero)
    /\ st.allocationDiff.Research # Zero

\* C4: when the working-hours total is positive, a working category's actual
\* percentage is its total over the active dates * 100 / working-hours total,
\* and its delta is that percentage minus the configured percentage.
C4_PercentageAndDelta ==
    LET st == stats IN
    (~st.isNull /\ NumGt(st.workingHoursTotal, Zero)) =>
        LET working == NumAdd(NumAdd(CategorySum(ActiveDates, "Research"),
                                     CategorySum(ActiveDates, "Teaching")),
                              CategorySum(ActiveDates, "Service"))
        IN  \A cat \in WorkingCategories :
               /\ NumMul(st.actualPercentages[cat], working)
                     = NumMul(CategorySum(ActiveDates, cat), Num(100))
               /\ NumAdd(st.allocationDiff[cat], settings.allocation[cat])
                     = st.actualPercentages[cat]

\* Research and Teaching share the working hours equally under the default
\* allocation 40/40/20: percentages 50/50/0, deltas +10/+10/-20
C4_Witness ==
    LET st == stats IN
    /\ ~st.isNull
    /\ NumGt(st.workingHoursTotal, Zero)
    /\ st.actualPercentages = [Research |-> Num(50), Teaching |-> Num(50), Service |-> Zero]
    /\ st.allocationDiff = [Research |-> Num(10), Teaching |-> Num(10), Service |-> Num(-20)]

\* C5: with an active date, over/under-work is the sum of the active day
\* totals - (number of distinct Monday-start weeks holding an active date *
\* hoursPerWeek) + carryoverHours.
C5_OverUnder ==
    LET st == stats IN
    ~st.isNull =>
        st.overUnder =
            NumAdd(NumSub(DaySum(ActiveDates),
                          NumMul(Num(Cardinality({MondayOf(d) : d \in ActiveDates})),
                                 settings.hoursPerWeek)),
                   settings.carryoverHours)

\* C6: the dates the statistics use are exactly the ledger dates with a
\* positive day total, ascending; the other dates contribute to no figure.
WithoutInactiveDates(ledger) ==
    [keys |-> SelectSeq(ledger.keys, LAMBDA d : NumGt(getDayTotal(ledger, d), Zero)),
     at   |-> [d \in {x \in DOMAIN ledger.at : NumGt(getDayTotal(ledger, x), Zero)} |-> ledger.at[d]]]

C6_ActiveDatesOnly ==
    LET st == stats IN
    /\ st.isNull <=> ActiveDates = {}
    /\ ~st.isNull =>
          /\ Range(st.allDates) = ActiveDates
          /\ IsAscending(st.allDates)
          /\ st.daysWorked = Cardinality(ActiveDates)
          /\ st.totalHours = DaySum(ActiveDates)
    /\ st = Stats(WithoutInactiveDates(entries), settings, tz)

\* a later date was entered before an earlier one, and one date of the ledger
\* holds no hours
C6_Witness ==
    LET st == stats IN
    /\ Len(entries.keys) >= 2
    /\ ~IsAscending(entries.keys)
    /\ ~st.isNull
    /\ \E d \in DOMAIN entries.at : d \notin ActiveDates

\* C7: the weekly rollup has one bucket per Monday-start week holding an
\* active date, keyed by that Monday, ascending, with the week's category sums
\* and the sum of its day totals.
C7_WeeklyRollup ==
    LET st == stats IN
    ~st.isNull =>
        LET weeks == {MondayOf(d) : d \in ActiveDates}
            rows == st.weeklyData
        IN  /\ Len(rows) = Cardinality(weeks)
            /\ \A i, j \in DOMAIN rows : i < j => rows[i].week < rows[j].week
            /\ \A i \in DOMAIN rows :
                  LET dates == {d \in ActiveDates : MondayOf(d) = rows[i].week}
                  IN  /\ rows[i].week \in weeks
                      /\ \A cat \in Range(CategoryNames) : rows[i][cat] = CategorySum(dates, cat)
                      /\ rows[i].total = DaySum(dates)

\* C8 as stated: with no active date the statistics are all 0.
C8_EmptyLedgerZeroStatistics ==
    LET st == stats IN
    ActiveDates = {} =>
        /\ ~st.isNull
        /\ st.totalHours = Zero /\ st.weeksWorked = 0 /\ st.daysWorked = 0
        /\ st.avgWeek = Zero /\ st.avgDay = Zero
        /\ \A i \in DOMAIN st.dayOfWeekAvg : st.dayOfWeekAvg[i].hours = Zero

\* C8 amended: with no active date there is no statistics record at all; a
\* record that exists counts at least one week and one day, its averages are
\* finite, and a weekday no active date is counted on has average 0.
C8_EmptyLedgerNoStatistics ==
    LET st == stats IN
    /\ ActiveDates = {} => st = NullStats
    /\ ~st.isNull =>
          /\ st.weeksWorked >= 1 /\ st.daysWorked >= 1
          /\ st.avgWeek = NumDiv(st.totalHours, Num(st.weeksWorked))
          /\ st.avgDay = NumDiv(st.totalHours, Num(st.daysWorked))
          /\ IsFinite(st.avgWeek) /\ IsFinite(st.avgDay)
          /\ \A i \in DOMAIN st.dayOfWeekAvg :
                /\ IsFinite(st.dayOfWeekAvg[i].hours)
                /\ (\A d \in ActiveDates : dayNameOf(d, tz) # st.dayOfWeekAvg[i].day)
                      => st.dayOfWeekAvg[i].hours = Zero

\* the ledger holds cells, all of them zero, and there are no statistics
C8_Witness ==
    LET st == stats IN
    /\ DOMAIN entries.at # {}
    /\ \A d \in DOMAIN entries.at : getDayTotal(entries, d) = Zero
    /\ st.isNull

\* C9: addTask with a name whose trimmed text is already a task of the category
\* (case-sensitive), or is empty, changes neither the taxonomy nor the ledger.
C9_RejectedAddTaskChangesNothing ==
    [][\A c \in EditCategories :
          (/\ addTask(c)
           /\ \/ trim(newTaskName) = ""
              \/ Includes(categories[c], trim(newTaskName)))
          => (categories' = categories /\ entries' = entries)]_vars

\* a padded name that is already in the category was submitted and rejected,
\* with hours in the ledger
C9_Witness ==
    /\ alertMsg = "This task already exists in this category"
    /\ editingTask \in EditCategories
    /\ newTaskName # trim(newTaskName)
    /\ Includes(categories[editingTask], trim(newTaskName))
    /\ entries # EmptyLedger

\* C10: no category's task sequence holds the same name twice.
C10_TaskNamesUnique ==
    \A c \in DOMAIN categories :
       \A i, j \in DOMAIN categories[c] : i # j => categories[c][i] # categories[c][j]

\* C11: a confirmed removeTask(category, name) takes exactly that name out of
\* that category's task sequence, keeps the other tasks in their order and the
\* other categories as they are, and leaves the ledger untouched: every day
\* total and category total is what it was, hours of the removed task included.
C11_RemoveTaskKeepsLedger ==
    [][\A c \in EditCategories, t \in RemovableTasks :
          removeTask(c, t, TRUE) =>
             /\ DOMAIN categories' = DOMAIN categories
             /\ categories'[c] = SelectSeq(categories[c], LAMBDA x : x # t)
             /\ \A other \in DOMAIN categories \ {c} : categories'[other] = categories[other]
             /\ entries' = entries
             /\ \A d \in DOMAIN entries.at :
                   /\ getDayTotal(entries', d) = getDayTotal(entries, d)
                   /\ \A cat \in Range(CategoryNames) :
                         getCategoryTotal(entries', d, cat) = getCategoryTotal(entries, d, cat)]_vars

\* Writing is no longer a Research task while the ledger still counts the
\* hours logged against it
C11_Witness ==
    /\ ~Includes(categories.Research, "Writing")
    /\ Includes(categories.Research, "Reading")
    /\ 8 \in DOMAIN entries.at
    /\ entries.at[8].Research.Writing = Num(2)
    /\ getCategoryTotal(entries, 8, "Research") = Num(2)
    /\ getDayTotal(entries, 8) = Num(2)

\* C12: the taxonomy's category names are always exactly Research, Teaching,
\* Service and Other, whatever was added, removed, reset, loaded or imported.
C12_CategorySetFixed ==
    DOMAIN categories = {"Research", "Teaching", "Service", "Other"}

\* C13: the detector never reports today: the first day whose total it reads
\* is the calendar day before today (the last Monday-to-Friday day before
\* today when weekends are skipped), each later one is the next eligible
\* calendar day back, and every record's date key is earlier than today's.
C13_NeverReportsToday ==
    LET scan == missingScan(entries, settings, now, tz)
        scanned == scan.scanned
    IN  /\ \A i \in DOMAIN scan.missing : scan.missing[i].date < Today
        /\ \A i \in DOMAIN scanned : scanned[i] < Today
        /\ (scanned # <<>> /\ IsEligibleKey(Today - 1)) => scanned[1] = Today - 1
        /\ \A i \in 1..(Len(scanned) - 1) :
              /\ scanned[i + 1] < scanned[i]
              /\ IsEligibleKey(scanned[i + 1])
              /\ \A d \in (scanned[i + 1] + 1)..(scanned[i] - 1) : ~IsEligibleKey(d)

\* C14: with the policy enabled, the dates reported are exactly the dates of
\* zero day total among the `days` most recent eligible days before today
\* (Monday to Friday only unless weekends are included): a skipped weekend
\* day is never reported and does not count towards `days`.
C14_ExactlyTheEmptyDaysOfTheWindow ==
    LET recs == missingDays
    IN  settings.missingDataWarning.enabled =>
           /\ {recs[i].date : i \in DOMAIN recs}
                 = {d \in LookbackWindow : getDayTotal(entries, d) = Zero}
           /\ ~settings.missingDataWarning.includeWeekends =>
                 \A i \in DOMAIN recs : IsWeekdayKey(recs[i].date) /\ ~recs[i].isWeekend

C16_LookbackDaysInRange ==
    settings.missingDataWarning.days \in 1..30

\* C17: importing a well-formed record leaves everything it has no field for
\* as it was: the ledger without entries, the taxonomy without categories, the
\* settings without settings, the sync URL always; and with a settings field,
\* every key of the settings object that field does not carry.
C17_ImportKeepsAbsentFields ==
    [][\A f \in {file \in ImportFiles : ~IsMalformed(file)} :
          importFile(f) =>
             /\ "entries" \notin DOMAIN f.data => entries' = entries
             /\ "categories" \notin DOMAIN f.data => categories' = categories
             /\ "settings" \notin DOMAIN f.data => settings' = settings
             /\ googleSheetsUrl' = googleSheetsUrl
             /\ "settings" \in DOMAIN f.data =>
                   /\ DOMAIN settings' = DOMAIN settings
                   /\ \A k \in DOMAIN settings \ DOMAIN f.data.settings : settings'[k] = settings[k]]_vars

\* a file with nothing but hoursPerWeek was imported over a ledger with hours,
\* an edited taxonomy and edited settings
C17_Witness ==
    /\ alertMsg = "Data imported successfully!"
    /\ settings.hoursPerWeek = Num(10)
    /\ settings.carryoverHours = Num(-3)
    /\ settings.missingDataWarning.includeWeekends
    /\ entries = SavedLedger
    /\ ~Includes(categories.Research, "Writing")

\* C18: importing a malformed payload (one that does not parse, or whose
\* entries are no date -> category -> task -> number map) changes neither the
\* ledger nor the taxonomy nor the settings.
C18_MalformedImportRejected ==
    [][\A f \in {file \in ImportFiles : IsMalformed(file)} :
          importFile(f) =>
             entries' = entries /\ categories' = categories /\ settings' = settings]_vars

\* C19: the detailed export of a ledger holds exactly one row for every
\* (date, category, task) cell with hours > 0, carrying the cell's date,
\* category, task and hours, no row for any other cell, and its rows are in
\* ascending order of date.
C19_DetailedExport ==
    [][(exportToCSV /\ entries.keys # <<>>) =>
          /\ download'.exported
          /\ LET rows == download'.rows
             IN  /\ \A d \in DOMAIN entries.at : \A c \in DOMAIN entries.at[d] :
                       \A t \in DOMAIN entries.at[d][c] :
                          LET hits == {i \in DOMAIN rows :
                                          rows[i].date = d /\ rows[i].category = c /\ rows[i].task = t}
                          IN  IF NumGt(entries.at[d][c][t], Zero)
                              THEN /\ Cardinality(hits) = 1
                                   /\ \A i \in hits : rows[i].hours = entries.at[d][c][t]
                              ELSE hits = {}
                 /\ \A i \in DOMAIN rows :
                       /\ rows[i].date \in DOMAIN entries.at
                       /\ rows[i].category \in DOMAIN entries.at[rows[i].date]
                       /\ rows[i].task \in DOMAIN entries.at[rows[i].date][rows[i].category]
                 /\ \A i, j \in DOMAIN rows : i < j => rows[i].date <= rows[j].date]_vars

\* a ledger whose later date was entered first was exported: two rows, the
\* earlier date first
C19_Witness ==
    /\ download.exported
    /\ Len(download.rows) = 2
    /\ \A i \in DOMAIN download.rows : "date" \in DOMAIN download.rows[i]
    /\ download.rows[1].date = 7 /\ download.rows[2].date = 14
    /\ download.rows[1].hours = Rat(3, 2)
    /\ entries.keys = <<14, 7>>

\* C20: a sync attempt started with a URL configured sets the status to
\* 'syncing' and ends in exactly one of success and error, for good; a request
\* is sent only by the user starting an attempt, never after a failure by
\* itself; and no step of a sync changes the ledger, the taxonomy or the settings.
C20_SyncAttemptOutcome ==
    /\ [][/\ \A i \in DOMAIN attempts :
                /\ i \in DOMAIN attempts'
                /\ attempts[i] # "pending" => attempts'[i] = attempts[i]
                /\ attempts'[i] \in {"pending", "success", "error"}
          /\ Len(attempts') > Len(attempts) =>
                /\ syncToGoogleSheets /\ googleSheetsUrl # ""
                /\ Len(attempts') = Len(attempts) + 1
                /\ attempts'[Len(attempts')] = "pending"
                /\ syncStatus' = "syncing"
          /\ (syncToGoogleSheets \/ clearSyncStatus
                 \/ \E i \in 1..MaxAttempts : fetchResolved(i) \/ fetchRejected(i))
                => UNCHANGED <<entries, categories, settings>>]_vars
    /\ \A i \in 1..MaxAttempts :
          (i \in DOMAIN attempts) ~> (i \in DOMAIN attempts /\ attempts[i] \in {"success", "error"})

\* an attempt failed, the user started another one, and that one succeeded,
\* with hours in the ledger
C20_Witness ==
    /\ attempts = <<"error", "success">>
    /\ syncStatus = "success"
    /\ entries # EmptyLedger

\* a (date, category, task) cell the ledger does not hold
IsAbsentCell(ledger, d, c, t) ==
    ~(/\ d \in DOMAIN ledger.at
      /\ c \in DOMAIN ledger.at[d]
      /\ t \in DOMAIN ledger.at[d][c])

\* C21: writing 0 to a cell the ledger does not hold changes no derived
\* result: the statistics (active dates, totals, week count, weekly rollup,
\* day-of-week averages, allocation deltas, over/under) and the missing-day
\* result are those of the ledger before, also when the date was absent.
C21_ZeroWriteChangesNoResult ==
    [][\A d \in DateKeys, c \in DOMAIN EntryTasks, v \in RawInputs :
          \A t \in EntryTasks[c] :
             (/\ numValueOf(v) = Zero
              /\ IsAbsentCell(entries, d, c, t)
              /\ updateEntry(d, c, t, v))
             => /\ Stats(entries', settings', tz') = Stats(entries, settings, tz)
                /\ getMissingDays(entries', settings', now', tz')
                      = getMissingDays(entries, settings, now, tz)]_vars

\* a date that was absent holds nothing but a cell of 0, next to a date with
\* hours, and the detector reports the date of the zero cell
C21_Witness ==
    /\ \E d \in DOMAIN entries.at :
          /\ \A c \in DOMAIN entries.at[d] : \A t \in DOMAIN entries.at[d][c] :
                entries.at[d][c][t] = Zero
          /\ \E i \in DOMAIN missingDays : missingDays[i].date = d
    /\ \E d \in DOMAIN entries.at : NumGt(getDayTotal(entries, d), Zero)

\* the dates getWeekDates is asked about: three weeks, Sundays included
WeekInputs == 0..20

\* C22: for every date x, a Sunday included, getWeekDates(x) is 7 dates, the
\* first the Monday on or before x, each next one the calendar day after the
\* one before, and x is one of them.
C22_WeekDatesFromMonday ==
    \A x \in WeekInputs :
       LET week == getWeekDates(x, tz)
       IN  /\ Len(week) = 7
           /\ week[1] = MondayOf(x)
           /\ \A i \in 1..6 : week[i + 1] = week[i] + 1
           /\ \E i \in 1..7 : week[i] = x

C24_ScansExactlyDays ==
    settings.missingDataWarning.enabled =>
        Len(missingScan(entries, settings, now, tz).scanned) = settings.missingDataWarning.days

\* C25: whenever a sync request is in flight the status is 'syncing', and at
\* most one request is in flight at any time.
C25_OneRequestInFlight ==
    LET inFlight == {i \in DOMAIN attempts : attempts[i] = "pending"}
    IN  /\ inFlight # {} => syncStatus = "syncing"
        /\ Cardinality(inFlight) <= 1

\* the record found in storage when the page was opened, during startup
SavedAtStartup == IF pc = "mount" THEN storage ELSE pending

\* C26: with a saved record in storage at startup, every step of the startup
\* sequence leaves the stored entries, categories and settings equal to the
\* saved ones (storage never holds the initial empty ledger and default
\* taxonomy instead), and when startup completes the state in memory is the
\* saved state.
C26_StartupKeepsSavedRecord ==
    [][(Mount /\ "entries" \in DOMAIN SavedAtStartup) =>
          /\ storage'.entries = SavedAtStartup.entries
          /\ storage'.categories = SavedAtStartup.categories
          /\ storage'.settings = SavedAtStartup.settings
          /\ renderLoaded =>
                /\ entries' = SavedAtStartup.entries
                /\ categories' = SavedAtStartup.categories
                /\ settings' = SavedAtStartup.settings]_vars

\* C27: the weekly-summary export of a ledger, dates of nothing but zeros
\* included, has one row per bucket of the weekly rollup of the statistics:
\* the same week keys in ascending order, the same Research, Teaching, Service
\* and Other sums (to 2 decimal places), and the bucket's total.
C27_SummaryMatchesRollup ==
    [][(exportSummaryCSV /\ entries.keys # <<>>) =>
          LET st == stats
              rollup == IF st.isNull THEN <<>> ELSE st.weeklyData
              rows == download'.rows
          IN  /\ Len(rows) = Len(rollup)
              /\ \A i \in DOMAIN rows :
                    /\ i \in DOMAIN rollup
                    /\ rows[i].week = rollup[i].week
                    /\ \A cat \in Range(CategoryNames) : rows[i][cat] = toFixed2(rollup[i][cat])
                    /\ rows[i].total = toFixed2(rollup[i].total)
              /\ \A i, j \in DOMAIN rows : i < j => rows[i].week < rows[j].week]_vars

\* C28: every day the detector scans is either reported missing or is an
\* active date of the statistics (day total above 0): never both, never
\* neither.
C28_ScannedDayMissingOrActive ==
    LET scan == missingScan(entries, settings, now, tz)
        reported == {scan.missing[i].date : i \in DOMAIN scan.missing}
    IN  \A i \in DOMAIN scan.scanned :
            (scan.scanned[i] \in reported) # (scan.scanned[i] \in ActiveDates)

C30_FiguresConsistent ==
    LET st == stats IN
    ~st.isNull =>
        /\ \A i \in DOMAIN st.weeklyData :
              st.weeklyData[i].total
                 = NumAdd(NumAdd(NumAdd(st.weeklyData[i].Research, st.weeklyData[i].Teaching),
                                 st.weeklyData[i].Service),
                          st.weeklyData[i].Other)
        /\ SumSeq([i \in DOMAIN st.weeklyData |-> st.weeklyData[i].total]) = st.totalHours
        /\ st.totalHours = NumAdd(st.workingHoursTotal, st.categoryTotals.Other)

====
